---- MODULE Spec2Model ----
(***************************************************************************)
(* A model of gtp_connection.py: the GTP command handlers of a Ninuki      *)
(* (five-in-a-row with captures) player, the five-in-a-row scan and the    *)
(* coordinate codec.  Texts are sequences of one-character strings, so     *)
(* that lower(), upper(), indexing and int() are computed, not assumed.    *)
(***************************************************************************)
EXTENDS Integers, Sequences, FiniteSets, TLC

(***************************************************************************)
(* Constants of board_base (imported at gtp_connection.py:19-30).          *)
(***************************************************************************)
EMPTY == 0
BLACK == 1
WHITE == 2
BORDER == 3
PASS == 0
MAXSIZE == 25

\* The run length that wins (temp_count >= 5) and the capture count the
\* handlers compare the counters with (self.B == 10).
FIVE == 5
THRESHOLD == 10

opponent(color) == WHITE + BLACK - color

(***************************************************************************)
(* Bounds of the model.                                                    *)
(***************************************************************************)
\* Board sizes a session is given (the boardsize argument): a board small
\* enough to be filled, and the smallest board on which five in a row fits.
SessionSizes == {2, 5}
\* Points of a session's board that moves are tried on: the first RegionLen
\* points in row-major order (on the 5x5 board, the first row).
RegionLen == 5
\* White's moves are tried on the first WhiteLen points of them only.
WhiteLen == 2
\* Sum of the two capture counters beyond which no capturing move is tried.
MaxCaptured == 2
\* Largest side of the boards the scan is applied to.
MaxScanSize == 5
ScanSizes == {2} \cup (FIVE..MaxScanSize)
\* Counter values of a session whose moves are all capturing ones.
MaxRace == 12

(***************************************************************************)
(* Texts.                                                                  *)
(***************************************************************************)
UpperLetters ==
  << "A","B","C","D","E","F","G","H","I","J","K","L","M",
     "N","O","P","Q","R","S","T","U","V","W","X","Y","Z" >>
LowerLetters ==
  << "a","b","c","d","e","f","g","h","i","j","k","l","m",
     "n","o","p","q","r","s","t","u","v","w","x","y","z" >>
Digits == << "0","1","2","3","4","5","6","7","8","9" >>

Has(seq, ch) == \E i \in 1..Len(seq) : seq[i] = ch
IndexOf(seq, ch) == CHOOSE i \in 1..Len(seq) : seq[i] = ch

\* The characters of the texts, and each one's small and capital form.
Chars ==
  { UpperLetters[i] : i \in 1..26 } \cup { LowerLetters[i] : i \in 1..26 }
    \cup { Digits[i] : i \in 1..10 } \cup { "-", "+" }
LowerOf ==
  [ch \in Chars |->
     IF Has(UpperLetters, ch) THEN LowerLetters[IndexOf(UpperLetters, ch)] ELSE ch]
UpperOf ==
  [ch \in Chars |->
     IF Has(LowerLetters, ch) THEN UpperLetters[IndexOf(LowerLetters, ch)] ELSE ch]

\* str.lower() and str.upper(), character by character.
lower(s) == [i \in 1..Len(s) |-> LowerOf[s[i]]]
upper(s) == [i \in 1..Len(s) |-> UpperOf[s[i]]]

\* str(n) for n >= 0: the decimal digits.
RECURSIVE str(_)
str(n) ==
  IF n < 10 THEN << Digits[n + 1] >>
  ELSE str(n \div 10) \o << Digits[(n % 10) + 1] >>

\* The value of a text of decimal digits.
RECURSIVE DigitsValue(_)
DigitsValue(s) ==
  IF Len(s) = 0 THEN 0
  ELSE 10 * DigitsValue(SubSeq(s, 1, Len(s) - 1)) + (IndexOf(Digits, s[Len(s)]) - 1)

AllDigits(s) == Len(s) > 0 /\ \A i \in 1..Len(s) : Has(Digits, s[i])

\* int(s): an optional sign followed by decimal digits; anything else raises
\* ValueError.
int(s) ==
  IF AllDigits(s) THEN [err |-> "", val |-> DigitsValue(s)]
  ELSE IF Len(s) > 1 /\ s[1] = "-" /\ AllDigits(Tail(s))
       THEN [err |-> "", val |-> 0 - DigitsValue(Tail(s))]
  ELSE IF Len(s) > 1 /\ s[1] = "+" /\ AllDigits(Tail(s))
       THEN [err |-> "", val |-> DigitsValue(Tail(s))]
  ELSE [err |-> "ValueError", val |-> 0]

\* The order of Python's string comparison on the characters used here
\* (code points: digits, then capitals, then small letters).
CharOrder == << "+", "-" >> \o Digits \o UpperLetters \o LowerLetters
CharRank == [ch \in Chars |-> IndexOf(CharOrder, ch)]

RECURSIVE TextLess(_, _)
TextLess(s, t) ==
  IF Len(t) = 0 THEN FALSE
  ELSE IF Len(s) = 0 THEN TRUE
  ELSE IF s[1] # t[1] THEN CharRank[s[1]] < CharRank[t[1]]
  ELSE TextLess(Tail(s), Tail(t))

\* sorted(list) of a list of distinct texts, given as a set.
sorted(S) ==
  LET before == [x \in S |-> Cardinality({ y \in S : TextLess(y, x) })]
  IN  [i \in 1..Cardinality(S) |-> CHOOSE x \in S : before[x] = i - 1]

(***************************************************************************)
(* The coordinate codec (gtp_connection.py:765-823).                       *)
(***************************************************************************)
\* board_base.coord_to_point: the index of (row, col) in the board array.
coord_to_point(row, col, boardsize) == (boardsize + 1) * row + col

point_to_coord(point, boardsize) ==
  IF point = PASS THEN << PASS, PASS >>
  ELSE LET NS == boardsize + 1
       IN  << point \div NS, point % NS >>

column_letters ==
  << "A","B","C","D","E","F","G","H","J","K","L","M","N",
     "O","P","Q","R","S","T","U","V","W","X","Y","Z" >>

\* format_point(move): err is "ValueError" when the function raises.
\* column_letters[col - 1] is Python indexing: col = 0 reads the last letter.
format_point(move) ==
  IF move[1] = PASS THEN [err |-> "", val |-> << "P","A","S","S" >>]
  ELSE LET row == move[1]
           col == move[2]
       IN  IF ~(0 <= row /\ row < MAXSIZE) \/ ~(0 <= col /\ col < MAXSIZE)
           THEN [err |-> "ValueError", val |-> << >>]
           ELSE [err |-> "",
                 val |-> << column_letters[IF col = 0 THEN Len(column_letters)
                                           ELSE col] >> \o str(row)]

\* move_to_coord(point_str, board_size): err is "ValueError" when it raises.
move_to_coord(point_str, board_size) ==
  IF ~(2 <= board_size /\ board_size <= MAXSIZE)
  THEN [err |-> "ValueError", val |-> << 0, 0 >>]
  ELSE LET s == lower(point_str)
       IN  IF s = << "p","a","s","s" >> THEN [err |-> "", val |-> << PASS, PASS >>]
           ELSE IF Len(s) = 0 THEN [err |-> "ValueError", val |-> << 0, 0 >>]
           ELSE LET col_c == s[1]
                    col0 == IndexOf(LowerLetters, col_c) - 1
                    col == IF IndexOf(LowerLetters, col_c) < IndexOf(LowerLetters, "i")
                           THEN col0 + 1 ELSE col0
                    row == int(Tail(s))
                IN  IF ~Has(LowerLetters, col_c) \/ col_c = "i"
                    THEN [err |-> "ValueError", val |-> << 0, 0 >>]
                    ELSE IF row.err # "" \/ row.val < 1
                    THEN [err |-> "ValueError", val |-> << 0, 0 >>]
                    ELSE IF ~(col <= board_size /\ row.val <= board_size)
                    THEN [err |-> "ValueError", val |-> << 0, 0 >>]
                    ELSE [err |-> "", val |-> << row.val, col >>]

\* color_to_int(c): err is "KeyError" when the lookup fails.
color_to_int(c) ==
  IF c = << "b" >> THEN [err |-> "", val |-> BLACK]
  ELSE IF c = << "w" >> THEN [err |-> "", val |-> WHITE]
  ELSE IF c = << "e" >> THEN [err |-> "", val |-> EMPTY]
  ELSE IF c = << "B","O","R","D","E","R" >> THEN [err |-> "", val |-> BORDER]
  ELSE [err |-> "KeyError", val |-> 0]

(***************************************************************************)
(* The board (board.py and board_util.py, used through their contracts).   *)
(* A board of side n is a grid g with g[r][c] the colour of the point      *)
(* (row r + 1, column c + 1), r and c in 0..n-1.                           *)
(***************************************************************************)
EmptyBoard(n) == [r \in 0..(n - 1) |-> [c \in 0..(n - 1) |-> EMPTY]]

\* GoBoardUtil.get_twoD_board(board): the 2-D snapshot of the board.
get_twoD_board(g) == g

\* len(temp_board).
len(g) == Cardinality(DOMAIN g)

\* GoBoardUtil.generate_legal_moves(board, color): the empty points, as
\* indices into the board array.
generate_legal_moves(g, color) ==
  LET n == len(g)
  IN  { coord_to_point(p[1] + 1, p[2] + 1, n) :
          p \in { q \in (DOMAIN g) \X (DOMAIN g) : g[q[1]][q[2]] = EMPTY } }

\* The board with the point (row, col) set to color.
SetPoint(g, row, col, color) ==
  [g EXCEPT ![row - 1] = [@ EXCEPT ![col - 1] = color]]

\* The points (r, c), 0-based, holding a stone of the given colour.
StonesOf(g, color) == { p \in (DOMAIN g) \X (DOMAIN g) : g[p[1]][p[2]] = color }

\* The board with the points of S emptied.
Remove(g, S) ==
  [r \in DOMAIN g |-> [c \in DOMAIN g |-> IF << r, c >> \in S THEN EMPTY ELSE g[r][c]]]

\* Stones one move can capture: none, a pair, or two pairs.
CaptureCounts == {0, 2, 4}

\* GoBoard.capture_by_a1(move, color): plays the stone, takes the captured
\* stones of the opponent off the board and returns (count, colour of the
\* captured stones).  Which pairs a move captures is the board's rule; here it
\* is any set of k opponent stones, k in CaptureCounts.  cap bounds k.
capture_by_a1(g, move, color, cap) ==
  LET coord == point_to_coord(move, len(g))
      placed == SetPoint(g, coord[1], coord[2], color)
      taken == IF cap < 2 THEN { {} }
               ELSE { T \in SUBSET StonesOf(g, opponent(color)) :
                        Cardinality(T) \in CaptureCounts /\ Cardinality(T) <= cap }
  IN  { [board |-> IF S = {} THEN placed ELSE Remove(placed, S),
         ret |-> << Cardinality(S), opponent(color) >>] : S \in taken }

(***************************************************************************)
(* The five-in-a-row scan (gtp_connection.py:515-664).                     *)
(***************************************************************************)
\* The walk with the run one stone longer before it answers True.
RECURSIVE go_through_six(_, _, _, _, _, _, _, _)
go_through_six(temp_board, row, col, target_color, index, dr, dc, temp_count) ==
  IF row + dr < 0 \/ row + dr >= index \/ col + dc < 0 \/ col + dc >= index
  THEN "None"
  ELSE IF temp_board[row + dr][col + dc] # target_color THEN "False"
  ELSE IF temp_count + 1 >= FIVE + 1 THEN "True"
  ELSE go_through_six(temp_board, row + dr, col + dc, target_color, index, dr, dc,
                      temp_count + 1)

\* The loop shared by the eight go_through_* functions: from (row, col) it
\* steps by (dr, dc) while the next cell is on the board.  It returns "False"
\* at the first cell of another colour, "True" once temp_count reaches five,
\* and "None" (the function falls off its end) when the board ends first.
RECURSIVE go_through(_, _, _, _, _, _, _, _)
go_through(temp_board, row, col, target_color, index, dr, dc, temp_count) ==
  IF ~(0 <= row + dr /\ row + dr < index /\ 0 <= col + dc /\ col + dc < index)
  THEN "None"
  ELSE IF temp_board[row + dr][col + dc] # target_color THEN "False"
  ELSE IF temp_count + 1 >= FIVE THEN "True"
  ELSE go_through(temp_board, row + dr, col + dc, target_color, index, dr, dc,
                  temp_count + 1)

go_through_up(temp_board, row, col, target_color, index) ==
  go_through(temp_board, row, col, target_color, index, -1, 0, 1)
go_through_down(temp_board, row, col, target_color, index) ==
  go_through(temp_board, row, col, target_color, index, 1, 0, 1)
go_through_left(temp_board, row, col, target_color, index) ==
  go_through(temp_board, row, col, target_color, index, 0, -1, 1)
go_through_right(temp_board, row, col, target_color, index) ==
  go_through(temp_board, row, col, target_color, index, 0, 1, 1)
go_through_NW(temp_board, row, col, target_color, index) ==
  go_through(temp_board, row, col, target_color, index, -1, 1, 1)
go_through_NE(temp_board, row, col, target_color, index) ==
  go_through(temp_board, row, col, target_color, index, -1, -1, 1)
go_through_SW(temp_board, row, col, target_color, index) ==
  go_through(temp_board, row, col, target_color, index, 1, -1, 1)
go_through_SE(temp_board, row, col, target_color, index) ==
  go_through(temp_board, row, col, target_color, index, 1, 1, 1)

\* Python's truth value of what a go_through_* function returns.
Truthy(x) == x = "True"

\* The chain of ifs without its four diagonal walks.
FiveFrom_axes(temp_board, row, col, color, index) ==
  \/ Truthy(go_through_down(temp_board, row, col, color, index))
  \/ Truthy(go_through_up(temp_board, row, col, color, index))
  \/ Truthy(go_through_left(temp_board, row, col, color, index))
  \/ Truthy(go_through_right(temp_board, row, col, color, index))

\* The chain of eight ifs at one occupied cell, in the order of the source.
FiveFrom(temp_board, row, col, color, index) ==
  \/ Truthy(go_through_down(temp_board, row, col, color, index))
  \/ Truthy(go_through_up(temp_board, row, col, color, index))
  \/ Truthy(go_through_left(temp_board, row, col, color, index))
  \/ Truthy(go_through_right(temp_board, row, col, color, index))
  \/ Truthy(go_through_NW(temp_board, row, col, color, index))
  \/ Truthy(go_through_NE(temp_board, row, col, color, index))
  \/ Truthy(go_through_SE(temp_board, row, col, color, index))
  \/ Truthy(go_through_SW(temp_board, row, col, color, index))

\* The nested row/col loops from cell number k on (row-major): the colour of
\* the first occupied cell from which five are found, EMPTY when the loops end.
ScanFrom(temp_board, index, k) ==
  LET found == { j \in k..(index * index - 1) :
                   LET row == j \div index
                       col == j % index
                       color == temp_board[row][col]
                   IN  color # EMPTY /\ FiveFrom(temp_board, row, col, color, index) }
  IN  IF found = {} THEN EMPTY
      ELSE LET first == CHOOSE j \in found : \A i \in found : j <= i
           IN  temp_board[first \div index][first % index]

\* temp_result with its row loop starting at the second row.
temp_result_late(g) ==
  LET temp_board == get_twoD_board(g)
      index == len(temp_board[0])
  IN  ScanFrom(temp_board, index, index)

\* temp_result(): 1 or 2 when the scan finds five, None (here 0) otherwise.
temp_result(g) ==
  LET temp_board == get_twoD_board(g)
      index == len(temp_board[0])
  IN  ScanFrom(temp_board, index, 0)

(***************************************************************************)
(* Responses (gtp_connection.py:155-163).  A response is a record: kind is *)
(* "=" or "?", text the body when it is a fixed text, moves the body when  *)
(* it is a list of point labels, nums when it is a list of numbers.        *)
(***************************************************************************)
Response(kind, text, moves, nums) ==
  [kind |-> kind, text |-> text, moves |-> moves, nums |-> nums]
respond(response) == Response("=", response, << >>, << >>)
respond_moves(moves) == Response("=", "", moves, << >>)
respond_nums(nums) == Response("=", "", << >>, nums)
\* respond() of a text made by formatting values into a template: text is
\* the template, moves the values that fill its {} places.
respond_format(template, values) == Response("=", template, values, << >>)
error(error_msg) == Response("?", error_msg, << >>, << >>)
(***************************************************************************)
(* The session: the GtpConnection object and its board.                    *)
(***************************************************************************)
VARIABLES
  size,            \* board.size
  board,           \* the board's points
  current_player,  \* board.current_player
  B, W,            \* self.B, self.W: the capture counters
  running,         \* FALSE once a handler's exception has ended the process
  out,             \* the responses the last command wrote to stdout
  last,            \* the last command: its name, how it ended, for an
                   \* accepted move what the capture rule returned (k stones
                   \* of colour x), for an accepted pass its colour x
  snap,            \* what the last command found when it was a reset or an
                   \* accepted pass (history, read by no handler)
  call,            \* the last call of the coordinate codec made on its own:
                   \* the function, its arguments and what it returned
  argc,            \* len(args) of the last command line
  arg0,            \* args[0] of the last command line when its handler reads
                   \* it, the empty text otherwise
  line,            \* the last input line when it was given as a text (the
                   \* lines that reach no handler), the empty text otherwise
  komi             \* go_engine.komi as the komi command set it, a fraction;
                   \* empty as long as no komi command has set it

vars == << size, board, current_player, B, W, running, out, last, snap, call, argc, arg0, line, komi >>

Last(cmd, status, k, x) == [cmd |-> cmd, status |-> status, k |-> k, x |-> x]

\* The state a reset finds: the side, the player to move, the counters and
\* whether there are stones.  After an accepted pass: the player to move
\* before it, and the colour of the pass before it when the command before
\* was an accepted pass too.
NoSnap == [size |-> 0, player |-> 0, B |-> 0, W |-> 0, stones |-> FALSE, passed |-> 0]

\* A call of the codec: fn the function called last ("" before any), move
\* and board_size the arguments, text what format_point returned, coord what
\* move_to_coord returned, err the exception raised ("" when none).
Call(fn, move, board_size, text, coord, err) ==
  [fn |-> fn, move |-> move, board_size |-> board_size, text |-> text,
   coord |-> coord, err |-> err]
NoCall == Call("", << 0, 0 >>, 0, << >>, << 0, 0 >>, "")

\* Session inputs: the colour and move arguments tried.
Region(n) == { p \in (1..n) \X (1..n) : (p[1] - 1) * n + (p[2] - 1) < RegionLen }
\* format_point, tabulated.
FormatPoint == [move \in (0..MAXSIZE) \X (0..MAXSIZE) |-> format_point(move)]
RegionLabels == [n \in SessionSizes |-> { FormatPoint[p].val : p \in Region(n) }]
WhiteLabels ==
  [n \in SessionSizes |->
     { FormatPoint[p].val : p \in { q \in Region(n) : (q[1] - 1) * n + (q[2] - 1) < WhiteLen } }]
\* The points random.choice is let choose from, by the colour of the move.
GenmoveLabels ==
  [n \in SessionSizes |->
     [color \in {BLACK, WHITE} |-> IF color = BLACK THEN RegionLabels[n] ELSE WhiteLabels[n]]]
\* The points after the region that Black plays in the capture race.
RacePoints(n) ==
  { p \in (1..n) \X (1..n) :
      /\ (p[1] - 1) * n + (p[2] - 1) >= RegionLen
      /\ (p[1] - 1) * n + (p[2] - 1) < RegionLen + 2 }
RaceLabels == [n \in SessionSizes |-> { FormatPoint[p].val : p \in RacePoints(n) }]
MoveArgs ==
  [n \in SessionSizes |->
     RegionLabels[n] \cup { << "P","A","S","S" >>, << "P","a","s","s" >>,
                             << "Z","9" >>, << "a","1" >> }]
PlayColorArgs == { << "b" >>, << "W" >>, << "e" >>, << "x" >>, << "B","O","R","D","E","R" >> }
GenmoveColorArgs == { << "b" >>, << "w" >>, << "x" >> }
\* What the handlers compute from their arguments alone, tabulated.
ColorOfArg ==
  [a0 \in PlayColorArgs \cup GenmoveColorArgs |-> color_to_int(lower(a0))]
CoordOfArg ==
  [n \in SessionSizes |->
     [a1 \in MoveArgs[n] \cup RaceLabels[n] |-> move_to_coord(a1, n)]]
IsPassArg ==
  [n \in SessionSizes |->
     [a1 \in MoveArgs[n] \cup RaceLabels[n] |-> lower(a1) = << "p","a","s","s" >>]]
UpperOfArg ==
  [n \in SessionSizes |-> [a1 \in MoveArgs[n] \cup RaceLabels[n] |-> upper(a1)]]
\* The argument lists play is tried with: b with every move text, W with
\* White's points, PASS and Z9, the colour e with a point, PASS and Z9, and
\* the colours x and BORDER with a point.
PlayArgs ==
  [n \in SessionSizes |->
     ({ << "b" >> } \X MoveArgs[n])
       \cup ({ << "W" >> } \X (WhiteLabels[n] \cup { << "P","A","S","S" >>, << "Z","9" >> }))
       \cup ({ << "e" >> } \X { << "A","1" >>, << "P","A","S","S" >>, << "Z","9" >> })
       \cup ({ << "x" >>, << "B","O","R","D","E","R" >> } \X { << "A","1" >> })]

\* argmap (gtp_connection.py:83-90): the required number of arguments and
\* the text written when the number given differs.
argmap ==
  [boardsize     |-> << 1, "Usage: boardsize INT" >>,
   komi          |-> << 1, "Usage: komi FLOAT" >>,
   known_command |-> << 1, "Usage: known_command CMD_NAME" >>,
   genmove       |-> << 1, "Usage: genmove {w,b}" >>,
   play          |-> << 2, "Usage: play {b,w} MOVE" >>,
   legal_moves   |-> << 1, "Usage: legal_moves {w,b}" >>]

\* The check letting through every line that has arguments enough.
has_arg_error_few(cmd, argnum) == cmd \in DOMAIN argmap /\ argmap[cmd][1] > argnum

\* has_arg_error(cmd, argnum): whether get_cmd stops at the argument count
\* (the text it writes then is argmap[cmd][2]).
has_arg_error(cmd, argnum) == cmd \in DOMAIN argmap /\ argmap[cmd][1] # argnum

\* The numbers of arguments the command lines tried have, by command.
ArgNums ==
  [cmd \in { "boardsize", "komi", "known_command", "genmove", "play", "legal_moves",
             "clear_board", "gogui-rules_final_result", "gogui-rules_legal_moves",
             "gogui-rules_captured_count", "protocol_version", "quit", "name",
             "version", "showboard", "list_commands", "gogui-analyze_commands",
             "gogui-rules_game_id", "gogui-rules_board_size",
             "gogui-rules_side_to_move", "gogui-rules_board" } |->
     IF cmd = "play" THEN {0, 1, 2, 3}
     ELSE IF cmd = "clear_board" THEN {0, 1}
     ELSE IF cmd \in DOMAIN argmap THEN {0, 1, 2}
     ELSE {0}]

\* get_cmd reaching the handler of command_name (gtp_connection.py:125-129):
\* the line has a number of arguments that has_arg_error lets through.
Dispatched(command_name) ==
  \E argnum \in ArgNums[command_name] :
    /\ ~has_arg_error(command_name, argnum)
    /\ argc' = argnum
    /\ arg0' = << >>
    /\ line' = << >>
    /\ UNCHANGED komi

\* The same for play and genmove, whose handlers read args[0] as a colour.
DispatchedColor(command_name, a0) ==
  \E argnum \in ArgNums[command_name] :
    /\ ~has_arg_error(command_name, argnum)
    /\ argc' = argnum
    /\ arg0' = a0
    /\ line' = << >>
    /\ UNCHANGED komi

\* GoBoard(size) and GtpConnection.__init__ (gtp_connection.py:50-55).
Init ==
  /\ size \in SessionSizes
  /\ board = EmptyBoard(size)
  /\ current_player = BLACK
  /\ B = 0
  /\ W = 0
  /\ running = TRUE
  /\ out = << >>
  /\ last = Last("init", "", 0, 0)
  /\ snap = NoSnap
  /\ call = NoCall
  /\ argc = 0
  /\ arg0 = << >>
  /\ line = << >>
  /\ komi = << >>

\* A handler raised: get_cmd re-raises (gtp_connection.py:130-133) and the
\* process ends without a response; nothing of its state is left.
Raise(cmd, what) ==
  /\ running' = FALSE
  /\ out' = << >>
  /\ last' = Last(cmd, what, 0, 0)
  /\ snap' = NoSnap
  /\ UNCHANGED call
  /\ size' = 0
  /\ board' = EmptyBoard(0)
  /\ current_player' = 0
  /\ B' = 0
  /\ W' = 0

\* A handler that answers and changes nothing else.
Answer(cmd, status, responses) ==
  /\ out' = responses
  /\ last' = Last(cmd, status, 0, 0)
  /\ snap' = NoSnap
  /\ UNCHANGED call
  /\ UNCHANGED << size, board, current_player, B, W, running >>

\* GoBoard.reset(size): an empty board with Black to move.
reset(n) ==
  /\ size' = n
  /\ board' = EmptyBoard(n)
  /\ current_player' = BLACK

\* sorted(), tabulated: the labels of a board's points in sorted order; the
\* sorted list of some of them is this list without the others.
SortedLabels ==
  [n \in SessionSizes \cup ScanSizes |-> sorted({ FormatPoint[p].val : p \in (1..n) \X (1..n) })]
sorted_moves(S, n) == LET Kept(x) == x \in S IN SelectSeq(SortedLabels[n], Kept)

\* legal_move(): the labels of the current player's legal moves.
legal_move ==
  { FormatPoint[point_to_coord(move, size)].val :
      move \in generate_legal_moves(board, current_player) }

Found ==
  [size |-> size, player |-> current_player, B |-> B, W |-> W,
   stones |-> board # EmptyBoard(size), passed |-> 0]

\* clear_board without the two assignments to the counters.
clear_board_keep ==
  /\ running
  /\ Dispatched("clear_board")
  /\ reset(size)
  /\ out' = << respond("") >>
  /\ last' = Last("clear_board", "ok", 0, 0)
  /\ snap' = Found
  /\ UNCHANGED call
  /\ UNCHANGED << B, W, running >>

clear_board_cmd ==
  /\ running
  /\ Dispatched("clear_board")
  /\ B' = 0
  /\ W' = 0
  /\ reset(size)
  /\ out' = << respond("") >>
  /\ last' = Last("clear_board", "ok", 0, 0)
  /\ snap' = Found
  /\ UNCHANGED call
  /\ UNCHANGED running

boardsize_cmd ==
  /\ running
  /\ Dispatched("boardsize")
  /\ \E n \in SessionSizes :
       LET arg == int(str(n))
       IN  /\ arg.err = ""
           /\ reset(arg.val)
  /\ out' = << respond("") >>
  /\ last' = Last("boardsize", "ok", 0, 0)
  /\ snap' = Found
  /\ UNCHANGED call
  /\ UNCHANGED << B, W, running >>

\* The counter update with the two counters exchanged.
Credit_captured(catch_arr) ==
  /\ B' = IF catch_arr[2] = BLACK THEN B + catch_arr[1] ELSE B
  /\ W' = IF catch_arr[2] = BLACK THEN W
          ELSE IF catch_arr[2] = WHITE THEN W + catch_arr[1] ELSE W

\* The counter update taking the count off instead of adding it.
Credit_minus(catch_arr) ==
  /\ W' = IF catch_arr[2] = BLACK THEN W - catch_arr[1] ELSE W
  /\ B' = IF catch_arr[2] = BLACK THEN B
          ELSE IF catch_arr[2] = WHITE THEN B - catch_arr[1] ELSE B

\* The counter update of play_cmd and genmove_cmd for what capture_by_a1
\* returned (gtp_connection.py:707-710, 740-743).
Credit(catch_arr) ==
  /\ W' = IF catch_arr[2] = BLACK THEN W + catch_arr[1] ELSE W
  /\ B' = IF catch_arr[2] = BLACK THEN B
          ELSE IF catch_arr[2] = WHITE THEN B + catch_arr[1] ELSE B

\* The captures left before the counters' sum passes MaxCaptured.
CaptureRoom == MaxCaptured - (B + W)

\* An accepted move: the stone is played through capture_by_a1.
Move(cmd, move, color, response, cap) ==
  \E res \in capture_by_a1(board, move, color, cap) :
    /\ board' = res.board
    /\ current_player' = opponent(color)
    /\ Credit(res.ret)
    /\ out' = << response >>
    /\ last' = Last(cmd, "ok", res.ret[1], res.ret[2])
    /\ snap' = NoSnap
    /\ UNCHANGED call
    /\ UNCHANGED << size, running >>

\* The pass branch handing the move to the other player, whoever passed.
Pass_toggle(color) ==
  /\ current_player' = opponent(current_player)
  /\ out' = << respond("") >>
  /\ last' = Last("play", "pass", 0, color)
  /\ UNCHANGED call
  /\ snap' = [NoSnap EXCEPT !.player = current_player,
                            !.passed = IF last.status = "pass" THEN last.x ELSE 0]
  /\ UNCHANGED << size, board, B, W, running >>

\* The pass branch of play_cmd (gtp_connection.py:699-703): play_move(PASS,
\* color) places nothing, and the player to move becomes color's opponent.
Pass(color) ==
  /\ current_player' = opponent(color)
  /\ out' = << respond("") >>
  /\ last' = Last("play", "pass", 0, color)
  /\ UNCHANGED call
  /\ snap' = [NoSnap EXCEPT !.player = current_player,
                            !.passed = IF last.status = "pass" THEN last.x ELSE 0]
  /\ UNCHANGED << size, board, B, W, running >>

\* A rejection that hands the move to the other player all the same.
Reject_turn(category, response) ==
  /\ current_player' = opponent(current_player)
  /\ out' = << response >>
  /\ last' = Last("play", category, 0, 0)
  /\ snap' = NoSnap
  /\ UNCHANGED << size, board, B, W, running, call >>

\* play_cmd rejecting its move (gtp_connection.py:682-684, 692-695, 712-715):
\* it writes the text of the category and returns.
Reject(category, response) == Answer("play", category, << response >>)

\* error_list[2], as a text.
Occupied_text == << "o","c","c","u","p","i","e","d" >>

\* play_cmd for the argument lists of argset, with the capture rule's count
\* bounded by cap.
PlayWith(argset, cap) ==
  /\ running
  /\ LET legal_list == legal_move
     IN  \E args \in argset :
       DispatchedColor("play", args[1]) /\
       LET a0 == args[1]
           a1 == args[2]
           c == ColorOfArg[a0]
           coord == CoordOfArg[size][a1]
           \* color is assigned only when color_to_int returns a true value
           bound == c.val # 0
           color == c.val
       IN  IF c.err # ""
           THEN Reject("wrong color",
                       respond_format("Illegal Move: \"{}\" wrong color", args))
           ELSE IF coord.err # ""
           THEN Reject("wrong coordinate",
                       respond_format("Illegal Move: \"{}\" wrong coordinate", args))
           ELSE IF IsPassArg[size][a1]
           THEN IF ~bound THEN Raise("play", "UnboundLocalError at pass")
                ELSE Pass(color)
           ELSE IF UpperOfArg[size][a1] \in legal_list
           THEN IF ~bound THEN Raise("play", "UnboundLocalError")
                ELSE Move("play", coord_to_point(coord.val[1], coord.val[2], size),
                          color, respond(""), cap)
           ELSE Reject("occupied",
                       respond_format("Illegal Move: {},{}", << a1, Occupied_text >>))

play_cmd == PlayWith(PlayArgs[size], CaptureRoom)

\* genmove playing the stone of the player to move, whatever its argument.
genmove_cmd_turn ==
  /\ running
  /\ LET legal_list == legal_move
         result == temp_result(board)
         \* self.temp_result() == 1 or self.temp_result() == 2
         resign == result = 1 \/ result = 2
     IN  \E a0 \in GenmoveColorArgs :
       DispatchedColor("genmove", a0) /\
       LET c == ColorOfArg[a0]
           color == c.val
       IN  IF c.err # "" THEN Raise("genmove", "KeyError")
           ELSE IF legal_list = {} THEN Raise("genmove", "IndexError")
           \* the answer resign is the same whichever move was chosen
           ELSE IF resign THEN Answer("genmove", "resign", << respond("resign") >>)
           ELSE \E move_as_string \in legal_list \cap GenmoveLabels[size][color] :
                  LET move_coord == CoordOfArg[size][move_as_string].val
                      check_move == coord_to_point(move_coord[1], move_coord[2], size)
                  IN  Move("genmove", check_move, current_player,
                           respond_moves(<< move_as_string >>), CaptureRoom)

\* genmove_cmd (gtp_connection.py:717-747).
genmove_cmd ==
  /\ running
  /\ LET legal_list == legal_move
         result == temp_result(board)
         \* self.temp_result() == 1 or self.temp_result() == 2
         resign == result = 1 \/ result = 2
     IN  \E a0 \in GenmoveColorArgs :
       DispatchedColor("genmove", a0) /\
       LET c == ColorOfArg[a0]
           color == c.val
       IN  IF c.err # "" THEN Raise("genmove", "KeyError")
           ELSE IF legal_list = {} THEN Raise("genmove", "IndexError")
           \* the answer resign is the same whichever move was chosen
           ELSE IF resign THEN Answer("genmove", "resign", << respond("resign") >>)
           ELSE \E move_as_string \in legal_list \cap GenmoveLabels[size][color] :
                  LET move_coord == CoordOfArg[size][move_as_string].val
                      check_move == coord_to_point(move_coord[1], move_coord[2], size)
                  IN  Move("genmove", check_move, color,
                           respond_moves(<< move_as_string >>), CaptureRoom)

\* What gogui_rules_final_result_cmd writes for a board and the counters.
final_result(g, b, w) ==
  LET temp_board == get_twoD_board(g)
      index == len(temp_board)
      \* count when the loop reaches a row: the rows before it with no 0
      count(row) == Cardinality({ r \in 0..(row - 1) :
                                    \A c \in 0..(index - 1) : temp_board[r][c] # 0 })
      draw == \E row \in 0..(index - 1) : count(row) = index
      color == ScanFrom(temp_board, index, 0)
  IN  IF color # EMPTY
      THEN IF color = 1 THEN respond("black") ELSE respond("white")
      ELSE IF draw = FALSE
           THEN IF b = THRESHOLD THEN respond("white")
                ELSE IF w = THRESHOLD THEN respond("black")
                ELSE respond("unknown")
           ELSE respond("Draw")

gogui_rules_final_result_cmd ==
  /\ running
  /\ Dispatched("gogui-rules_final_result")
  /\ Answer("gogui-rules_final_result", "ok", << final_result(board, B, W) >>)

\* What gogui_rules_legal_moves_cmd writes.
legal_moves_response ==
  LET temp_board == get_twoD_board(board)
      index == len(temp_board[0])
  IN  IF B = THRESHOLD THEN respond("")
      ELSE IF W = THRESHOLD THEN respond("")
      ELSE IF ScanFrom(temp_board, index, 0) # EMPTY THEN respond("")
      ELSE respond_moves(sorted_moves(legal_move, size))

gogui_rules_legal_moves_cmd ==
  /\ running
  /\ Dispatched("gogui-rules_legal_moves")
  /\ Answer("gogui-rules_legal_moves", "ok", << legal_moves_response >>)

gogui_rules_captured_count_cmd ==
  /\ running
  /\ Dispatched("gogui-rules_captured_count")
  /\ Answer("gogui-rules_captured_count", "ok", << respond_nums(<< B, W >>) >>)

\* get_cmd stopping at the argument count (gtp_connection.py:125-126,
\* 144-146): the usage text is written as a failure and no handler runs.
arg_error ==
  /\ running
  /\ \E cmd \in DOMAIN argmap : \E argnum \in ArgNums[cmd] :
       /\ has_arg_error(cmd, argnum)
       /\ argc' = argnum
       /\ arg0' = << >>
       /\ line' = << >>
       /\ UNCHANGED komi
       /\ Answer(cmd, "usage", << error(argmap[cmd][2]) >>)

(***************************************************************************)
(* get_cmd on an input line given as a text (gtp_connection.py:108-137).   *)
(***************************************************************************)
\* The keys of self.commands in their order (gtp_connection.py:56-78), as
\* texts.
command_keys ==
  << << "p","r","o","t","o","c","o","l","_","v","e","r","s","i","o","n" >>,
     << "q","u","i","t" >>,
     << "n","a","m","e" >>,
     << "b","o","a","r","d","s","i","z","e" >>,
     << "s","h","o","w","b","o","a","r","d" >>,
     << "c","l","e","a","r","_","b","o","a","r","d" >>,
     << "k","o","m","i" >>,
     << "v","e","r","s","i","o","n" >>,
     << "k","n","o","w","n","_","c","o","m","m","a","n","d" >>,
     << "g","e","n","m","o","v","e" >>,
     << "l","i","s","t","_","c","o","m","m","a","n","d","s" >>,
     << "p","l","a","y" >>,
     << "l","e","g","a","l","_","m","o","v","e","s" >>,
     << "g","o","g","u","i","-","r","u","l","e","s","_","l","e","g","a","l","_","m","o","v","e","s" >>,
     << "g","o","g","u","i","-","r","u","l","e","s","_","f","i","n","a","l","_","r","e","s","u","l","t" >>,
     << "g","o","g","u","i","-","r","u","l","e","s","_","c","a","p","t","u","r","e","d","_","c","o","u","n","t" >>,
     << "g","o","g","u","i","-","r","u","l","e","s","_","g","a","m","e","_","i","d" >>,
     << "g","o","g","u","i","-","r","u","l","e","s","_","b","o","a","r","d","_","s","i","z","e" >>,
     << "g","o","g","u","i","-","r","u","l","e","s","_","s","i","d","e","_","t","o","_","m","o","v","e" >>,
     << "g","o","g","u","i","-","r","u","l","e","s","_","b","o","a","r","d" >>,
     << "g","o","g","u","i","-","a","n","a","l","y","z","e","_","c","o","m","m","a","n","d","s" >> >>
commands == { command_keys[i] : i \in DOMAIN command_keys }

IsSpace(ch) == ch \in { " ", "\t", "\r", "\n" }
isdigit(ch) == Has(Digits, ch)

\* s without its leading (its trailing) characters that are in chars.
RECURSIVE lstrip_of(_, _)
lstrip_of(s, chars) ==
  IF Len(s) > 0 /\ s[1] \in chars THEN lstrip_of(Tail(s), chars) ELSE s
RECURSIVE rstrip_of(_, _)
rstrip_of(s, chars) ==
  IF Len(s) > 0 /\ s[Len(s)] \in chars THEN rstrip_of(SubSeq(s, 1, Len(s) - 1), chars) ELSE s

\* command.strip(" \r\t"), str.lstrip() and re.sub("^\d+", "", command).
strip(s, chars) == rstrip_of(lstrip_of(s, chars), chars)
lstrip(s) == lstrip_of(s, { " ", "\t", "\r", "\n" })
sub_leading_digits(s) == lstrip_of(s, { Digits[i] : i \in 1..10 })

\* str.split(): the maximal runs of characters that are not white space.
RECURSIVE split(_)
split(s) ==
  LET t == lstrip(s)
      word_len == IF \E i \in 1..Len(t) : IsSpace(t[i])
                  THEN (CHOOSE i \in 1..Len(t) :
                          IsSpace(t[i]) /\ \A j \in 1..(i - 1) : ~IsSpace(t[j])) - 1
                  ELSE Len(t)
  IN  IF Len(t) = 0 THEN << >>
      ELSE << SubSeq(t, 1, word_len) >> \o split(SubSeq(t, word_len + 1, Len(t)))

\* The elements get_cmd goes on with, command name first; the empty list
\* when it returns before (blank line, comment, nothing but a number).
elements_of(command) ==
  IF Len(strip(command, { " ", "\r", "\t" })) = 0 THEN << >>
  ELSE IF command[1] = "#" THEN << >>
  ELSE IF isdigit(command[1]) THEN split(lstrip(sub_leading_digits(command)))
  ELSE split(command)

\* The input lines tried as texts: blank lines, comments, numbers (at the
\* start of the line and after a blank), and lines whose first word is no
\* command.
InputLines ==
  { << "\n" >>,
    << " ", "\t", "\n" >>,
    << "#", " ", "p", "l", "a", "y", "\n" >>,
    << "1", "2", "\n" >>,
    << "7", " ", "\n" >>,
    << "x", "\n" >>,
    << "7", "x", " ", "b", "\n" >>,
    << " ", "#", "\n" >>,
    << " ", "1", "2", "\n" >> }
ElementsOf == [command \in InputLines |-> elements_of(command)]

\* get_cmd on such a line: it returns without a response, or finds the name
\* in neither argmap nor commands and writes the error.  (The lines with a
\* known command are the handlers' actions.)
get_cmd ==
  /\ running
  /\ \E command \in InputLines :
       LET elements == ElementsOf[command]
       IN  /\ line' = command
           /\ arg0' = << >>
           /\ UNCHANGED komi
           /\ IF elements = << >>
              THEN /\ argc' = 0
                   /\ out' = << >>
                   /\ last' = Last("", "ignored", 0, 0)
                   /\ snap' = NoSnap
                   /\ UNCHANGED << size, board, current_player, B, W, running, call >>
              ELSE /\ elements[1] \notin commands
                   /\ argc' = Len(elements) - 1
                   /\ Answer("", "unknown", << error("Unknown command") >>)

(***************************************************************************)
(* The handlers that only answer (gtp_connection.py:174-296), komi and     *)
(* quit.                                                                   *)
(***************************************************************************)
\* The engine the connection was built with: its name and its version are
\* texts of the engine object, the same through the session.
go_engine == [name |-> "go_engine.name", version |-> "go_engine.version"]

\* get_cmd reaching a handler that answers and changes nothing.
Query(command_name, response) ==
  /\ running
  /\ Dispatched(command_name)
  /\ Answer(command_name, "ok", << response >>)

protocol_version_cmd == Query("protocol_version", respond("2"))
name_cmd == Query("name", respond(go_engine.name))
version_cmd == Query("version", respond(go_engine.version))

\* quit: the empty response, then exit() ends the process.
quit_cmd ==
  /\ running
  /\ Dispatched("quit")
  /\ running' = FALSE
  /\ out' = << respond("") >>
  /\ last' = Last("quit", "exit", 0, 0)
  /\ snap' = NoSnap
  /\ UNCHANGED call
  /\ size' = 0
  /\ board' = EmptyBoard(0)
  /\ current_player' = 0
  /\ B' = 0
  /\ W' = 0

\* str(get_twoD_board(board)): the rows of the array in its order, a cell
\* as the digit of its value.
board2d ==
  LET g == get_twoD_board(board)
      n == len(g)
  IN  [r \in 1..n |-> [c \in 1..n |-> Digits[g[r - 1][c - 1] + 1]]]
showboard_cmd == Query("showboard", respond_format("\n{}", board2d))

\* float(text) for a text of decimal digits with at most one point, as the
\* fraction << numerator, denominator >>; other texts raise ValueError.
RECURSIVE Pow10(_)
Pow10(k) == IF k = 0 THEN 1 ELSE 10 * Pow10(k - 1)
float(text) ==
  LET points == { i \in 1..Len(text) : text[i] = "." }
      dot == IF points = {} THEN Len(text) + 1 ELSE CHOOSE i \in points : TRUE
      whole == SubSeq(text, 1, dot - 1)
      part == rstrip_of(SubSeq(text, dot + 1, Len(text)), { "0" })
      digits == whole \o part
  IN  IF /\ Cardinality(points) <= 1
         /\ \A i \in (1..Len(text)) \ points : isdigit(text[i])
         /\ Len(text) > Cardinality(points)
      THEN [err |-> "", val |-> << DigitsValue(digits), Pow10(Len(part)) >>]
      ELSE [err |-> "ValueError", val |-> << >>]

\* The arguments komi is tried with.
KomiArgs == { << "6", ".", "5", "0" >>, << "x" >> }
komi_cmd ==
  /\ running
  /\ \E a0 \in KomiArgs : \E argnum \in ArgNums["komi"] :
       /\ ~has_arg_error("komi", argnum)
       /\ argc' = argnum
       /\ arg0' = a0
       /\ line' = << >>
       /\ LET value == float(a0)
          IN  IF value.err # ""
              THEN Raise("komi", value.err) /\ UNCHANGED komi
              ELSE /\ komi' = value.val
                   /\ Answer("komi", "ok", << respond("") >>)

\* The names known_command is asked about.
KnownArgs == { << "p","l","a","y" >>, << "P","l","a","y" >>, << "q","u","i","t" >>, << "x" >> }
known_command_cmd ==
  /\ running
  /\ \E a0 \in KnownArgs :
       /\ DispatchedColor("known_command", a0)
       /\ IF a0 \in commands
          THEN Answer("known_command", "ok", << respond("true") >>)
          ELSE Answer("known_command", "ok", << respond("false") >>)

list_commands_cmd == Query("list_commands", respond_moves(command_keys))

\* legal_moves COLOR: the empty points, as sorted labels.
legal_moves_cmd ==
  /\ running
  /\ \E a0 \in GenmoveColorArgs :
       /\ DispatchedColor("legal_moves", a0)
       /\ LET c == ColorOfArg[a0]
              moves == generate_legal_moves(board, c.val)
              gtp_moves == { FormatPoint[point_to_coord(move, size)].val : move \in moves }
          IN  IF c.err # "" THEN Raise("legal_moves", c.err)
              ELSE Answer("legal_moves", "ok", << respond_moves(sorted_moves(gtp_moves, size)) >>)

gogui_analyze_cmd ==
  Query("gogui-analyze_commands",
        respond("pstring/Legal Moves For ToPlay/gogui-rules_legal_moves\npstring/Side to Play/gogui-rules_side_to_move\npstring/Final Result/gogui-rules_final_result\npstring/Board Size/gogui-rules_board_size\npstring/Rules GameID/gogui-rules_game_id\npstring/Show Board/gogui-rules_board\n"))

gogui_rules_game_id_cmd == Query("gogui-rules_game_id", respond("Ninuki"))
gogui_rules_board_size_cmd == Query("gogui-rules_board_size", respond_moves(<< str(size) >>))

\* The answer that also hands the turn to the other player.
gogui_rules_side_to_move_turn ==
  /\ running
  /\ Dispatched("gogui-rules_side_to_move")
  /\ current_player' = opponent(current_player)
  /\ out' = << respond(IF current_player = BLACK THEN "black" ELSE "white") >>
  /\ last' = Last("gogui-rules_side_to_move", "ok", 0, 0)
  /\ snap' = NoSnap
  /\ UNCHANGED << size, board, B, W, running, call >>

gogui_rules_side_to_move_cmd ==
  LET color == IF current_player = BLACK THEN "black" ELSE "white"
  IN  Query("gogui-rules_side_to_move", respond(color))

\* The rows from the top one down, a point as X, O or "."; any other value
\* fails the assertion.
gogui_rules_board_cmd ==
  LET rows == [i \in 1..size |->
                 [c \in 1..size |->
                    LET point == board[size - i][c - 1]
                    IN  IF point = BLACK THEN "X"
                        ELSE IF point = WHITE THEN "O"
                        ELSE "."]]
      bad == \E r, c \in 0..(size - 1) : board[r][c] \notin { BLACK, WHITE, EMPTY }
  IN  IF bad
      THEN running /\ Dispatched("gogui-rules_board") /\ Raise("gogui-rules_board", "AssertionError")
      ELSE Query("gogui-rules_board", respond_moves(rows))

Next ==
  \/ clear_board_cmd
  \/ boardsize_cmd
  \/ play_cmd
  \/ genmove_cmd
  \/ gogui_rules_final_result_cmd
  \/ gogui_rules_legal_moves_cmd
  \/ gogui_rules_captured_count_cmd

Spec == Init /\ [][Next]_vars

(***************************************************************************)
(* The capture race: a session in which White's stones are played on all   *)
(* but the last point of the region, and Black plays that point and the    *)
(* two points after the region, so that Black's moves may capture four at  *)
(* a time and the counters run up to MaxRace.                              *)
(***************************************************************************)
RaceArgs ==
  [n \in SessionSizes |->
     LET lastp == CHOOSE p \in Region(n) :
                    \A q \in Region(n) : (q[1] - 1) * n + q[2] <= (p[1] - 1) * n + p[2]
     IN  { << << "W" >>, FormatPoint[p].val >> : p \in Region(n) \ {lastp} }
           \cup { << << "b" >>, l >> : l \in { FormatPoint[lastp].val } \cup RaceLabels[n] }]

play_race == PlayWith(RaceArgs[size], MaxRace - (B + W))

NextRace ==
  \/ play_race
  \/ gogui_rules_final_result_cmd
  \/ gogui_rules_legal_moves_cmd
  \/ gogui_rules_captured_count_cmd

SpecRace == Init /\ [][NextRace]_vars

(***************************************************************************)
(* The session with command lines of any number of arguments: the lines    *)
(* get_cmd refuses for their argument count, and the commands that change  *)
(* the board or the counters.                                              *)
(***************************************************************************)
NextArgs ==
  \/ arg_error
  \/ clear_board_cmd
  \/ boardsize_cmd
  \/ play_cmd
  \/ gogui_rules_captured_count_cmd

SpecArgs == Init /\ [][NextArgs]_vars

(***************************************************************************)
(* The session with its input lines: the lines that reach no handler, the  *)
(* lines refused for their argument count, and the handlers that write     *)
(* according to the state of the game.                                     *)
(***************************************************************************)
NextLines ==
  \/ get_cmd
  \/ arg_error
  \/ play_cmd
  \/ genmove_cmd
  \/ gogui_rules_final_result_cmd
  \/ gogui_rules_legal_moves_cmd

SpecLines == Init /\ [][NextLines]_vars

(***************************************************************************)
(* The session with the handlers that only answer, komi and quit, in the   *)
(* games that play, clear_board and boardsize reach (genmove places its    *)
(* stone as an accepted play does).                                        *)
(***************************************************************************)
\* The argument lists play is tried with here: White on its points, Black
\* on these and the next point of the region, and a pass.
QueryLabels ==
  [n \in SessionSizes |->
     { FormatPoint[p].val :
         p \in { q \in Region(n) : (q[1] - 1) * n + (q[2] - 1) < WhiteLen + 1 } }]
QueryArgs ==
  [n \in SessionSizes |->
     ({ << "b" >> } \X (QueryLabels[n] \cup { << "P","A","S","S" >> }))
       \cup ({ << "W" >> } \X WhiteLabels[n])]
play_queries == PlayWith(QueryArgs[size], CaptureRoom)

NextQueries ==
  \/ play_queries
  \/ clear_board_cmd
  \/ boardsize_cmd
  \/ protocol_version_cmd
  \/ quit_cmd
  \/ name_cmd
  \/ version_cmd
  \/ showboard_cmd
  \/ komi_cmd
  \/ known_command_cmd
  \/ list_commands_cmd
  \/ legal_moves_cmd
  \/ gogui_analyze_cmd
  \/ gogui_rules_game_id_cmd
  \/ gogui_rules_board_size_cmd
  \/ gogui_rules_side_to_move_cmd
  \/ gogui_rules_board_cmd
  \/ gogui_rules_legal_moves_cmd
  \/ gogui_rules_final_result_cmd
  \/ gogui_rules_captured_count_cmd

SpecQueries == Init /\ [][NextQueries]_vars

(***************************************************************************)
(* The scan applied to board snapshots.  The boards are those with any     *)
(* stones along one line of at least five points (a row, a column or a     *)
(* diagonal) of an otherwise empty board, the full boards with any stones  *)
(* along such a line and elsewhere a pattern holding no run longer than    *)
(* two, and all boards of side 2.                                          *)
(***************************************************************************)
Max(a, b) == IF a >= b THEN a ELSE b

Line(start, dir, length) == [start |-> start, dir |-> dir, length |-> length]
Lines(n) ==
  LET rows == { Line(<< r, 0 >>, << 0, 1 >>, n) : r \in 0..(n - 1) }
      cols == { Line(<< 0, c >>, << 1, 0 >>, n) : c \in 0..(n - 1) }
      edge == { << 0, c >> : c \in 0..(n - 1) } \cup { << r, 0 >> : r \in 0..(n - 1) }
      diag == { Line(s, << 1, 1 >>, n - Max(s[1], s[2])) : s \in edge }
      anti == { Line(<< 0, c >>, << 1, -1 >>, c + 1) : c \in 0..(n - 1) }
                \cup { Line(<< r, n - 1 >>, << 1, -1 >>, n - r) : r \in 0..(n - 1) }
  IN  { l \in rows \cup cols \cup diag \cup anti : l.length >= FIVE }

CellAt(l, i) == << l.start[1] + (i - 1) * l.dir[1], l.start[2] + (i - 1) * l.dir[2] >>

\* A filling with runs of at most two in every direction.
Pattern(r, c) == IF (c + 2 * r) % 4 < 2 THEN BLACK ELSE WHITE

ScanBoard(n, l, fill, filled) ==
  [r \in 0..(n - 1) |->
     [c \in 0..(n - 1) |->
        IF \E i \in 1..l.length : CellAt(l, i) = << r, c >>
        THEN fill[CHOOSE i \in 1..l.length : CellAt(l, i) = << r, c >>]
        ELSE IF filled THEN Pattern(r, c) ELSE EMPTY]]

ScanBoards(n, filled) ==
  IF n < FIVE
  THEN IF filled THEN {} ELSE [0..(n - 1) -> [0..(n - 1) -> {EMPTY, BLACK, WHITE}]]
  ELSE { ScanBoard(n, l, fill, filled) :
           l \in Lines(n),
           fill \in [1..n -> IF filled THEN {BLACK, WHITE} ELSE {EMPTY, BLACK, WHITE}] }

\* The counters that go with a board: a counter is at the threshold only on
\* the boards whose background is empty.
ScanCounters(filled) ==
  IF filled THEN { << 0, 0 >> } ELSE { << 0, 0 >>, << THRESHOLD, 0 >> }

InitScan ==
  /\ size \in ScanSizes
  /\ \E filled \in BOOLEAN :
       /\ board \in ScanBoards(size, filled)
       /\ \E counters \in ScanCounters(filled) : B = counters[1] /\ W = counters[2]
  /\ current_player = BLACK
  /\ running = TRUE
  /\ out = << >>
  /\ last = Last("init", "", 0, 0)
  /\ snap = NoSnap
  /\ call = NoCall
  /\ argc = 0
  /\ arg0 = << >>
  /\ line = << >>
  /\ komi = << >>

NextScan ==
  \/ gogui_rules_final_result_cmd
  \/ gogui_rules_legal_moves_cmd

SpecScan == InitScan /\ [][NextScan]_vars

(***************************************************************************)
(* The codec on its own: format_point applied to a coordinate pair, then   *)
(* move_to_coord applied to the text it returned, for every board size     *)
(* move_to_coord accepts and every point of the board, and for PASS.       *)
(***************************************************************************)
CodecSizes == 2..MAXSIZE
CodecMoves(n) == ((1..n) \X (1..n)) \cup { << PASS, PASS >> }

InitCodec ==
  /\ size = 0
  /\ board = EmptyBoard(0)
  /\ current_player = 0
  /\ B = 0
  /\ W = 0
  /\ running = FALSE
  /\ out = << >>
  /\ last = Last("init", "", 0, 0)
  /\ snap = NoSnap
  /\ \E n \in CodecSizes : \E move \in CodecMoves(n) :
       call = Call("", move, n, << >>, << 0, 0 >>, "")
  /\ argc = 0
  /\ arg0 = << >>
  /\ line = << >>
  /\ komi = << >>

format_point_call ==
  /\ call.fn = ""
  /\ LET r == format_point(call.move)
     IN  call' = [call EXCEPT !.fn = "format_point", !.text = r.val, !.err = r.err]
  /\ UNCHANGED << size, board, current_player, B, W, running, out, last, snap, argc, arg0, line, komi >>

move_to_coord_call ==
  /\ call.fn = "format_point"
  /\ call.err = ""
  /\ LET r == move_to_coord(call.text, call.board_size)
     IN  call' = [call EXCEPT !.fn = "move_to_coord", !.coord = r.val, !.err = r.err]
  /\ UNCHANGED << size, board, current_player, B, W, running, out, last, snap, argc, arg0, line, komi >>

NextCodec ==
  \/ format_point_call
  \/ move_to_coord_call

SpecCodec == InitCodec /\ [][NextCodec]_vars

(***************************************************************************)
(* What the claims speak of, stated on the board itself.                   *)
(***************************************************************************)
FinalResult == "gogui-rules_final_result"
LegalMoves == "gogui-rules_legal_moves"
ColorName(color) == IF color = BLACK THEN "black" ELSE "white"

Axes == { << 0, 1 >>, << 1, 0 >>, << 1, 1 >>, << 1, -1 >> }
\* The sets of L points in a straight line on board g.
Windows(g, L) ==
  { { << p[1] + i * d[1], p[2] + i * d[2] >> : i \in 0..(L - 1) } :
      << p, d >> \in { pd \in ((DOMAIN g) \X (DOMAIN g)) \X Axes :
                         /\ pd[1][1] + (L - 1) * pd[2][1] \in DOMAIN g
                         /\ pd[1][2] + (L - 1) * pd[2][2] \in DOMAIN g } }
HasRun(g, color, L) == \E w \in Windows(g, L) : \A p \in w : g[p[1]][p[2]] = color
HasFive(g) == HasRun(g, BLACK, FIVE) \/ HasRun(g, WHITE, FIVE)
Occupied(g) == { p \in (DOMAIN g) \X (DOMAIN g) : g[p[1]][p[2]] # EMPTY }
Full(g) == \A p \in (DOMAIN g) \X (DOMAIN g) : g[p[1]][p[2]] # EMPTY
\* The stones of g are five of one colour in a line, and nothing else.
OnlyFive(g, color) ==
  \E w \in Windows(g, FIVE) : Occupied(g) = w /\ \A p \in w : g[p[1]][p[2]] = color
BelowThreshold == B < THRESHOLD /\ W < THRESHOLD

(***************************************************************************)
(* genmove on the board snapshots that hold five in a row, with either     *)
(* player to move: those of the scan's family, the full boards among them. *)
(***************************************************************************)
InitFive ==
  /\ size \in ScanSizes
  /\ \E filled \in BOOLEAN : board \in { g \in ScanBoards(size, filled) : HasFive(g) }
  /\ current_player \in { BLACK, WHITE }
  /\ \E counters \in { << 0, 0 >>, << 2, 4 >> } : B = counters[1] /\ W = counters[2]
  /\ running = TRUE
  /\ out = << >>
  /\ last = Last("init", "", 0, 0)
  /\ snap = NoSnap
  /\ call = NoCall
  /\ argc = 0
  /\ arg0 = << >>
  /\ line = << >>
  /\ komi = << >>

NextFive ==
  \/ genmove_cmd
  \/ gogui_rules_legal_moves_cmd

SpecFive == InitFive /\ [][NextFive]_vars

(***************************************************************************)
(* The session going on after five in a row: from the snapshots that hold  *)
(* five in a row on a board of a session's size, White plays on the points *)
(* of the region, with moves that capture nothing, and the result is asked *)
(* for.                                                                    *)
(***************************************************************************)
OverArgs == [n \in SessionSizes |-> { << "W" >> } \X RegionLabels[n]]

InitOver ==
  /\ InitFive
  /\ size \in SessionSizes
  /\ B = 0
  /\ W = 0

play_over == PlayWith(OverArgs[size], 0)

NextOver ==
  \/ play_over
  \/ gogui_rules_final_result_cmd
  \/ clear_board_cmd

SpecOver == InitOver /\ [][NextOver]_vars

\* C1: five stones of one colour in a straight line on an otherwise empty
\* board of side at least five, both counters below the threshold:
\* gogui-rules_final_result answers with the name of that colour.
C1_FiveInLineNamed ==
  \A color \in {BLACK, WHITE} :
    (last.cmd = FinalResult /\ size >= FIVE /\ BelowThreshold /\ OnlyFive(board, color))
      => out = << respond(ColorName(color)) >>

\* C1 happens: five white stones down a diagonal that ends in a corner, and
\* the answer white.
C1_Witness ==
  /\ last.cmd = FinalResult
  /\ BelowThreshold
  /\ OnlyFive(board, WHITE)
  /\ board[0][size - 1] = WHITE
  /\ board[1][size - 2] = WHITE
  /\ out = << respond("white") >>

\* C2: on every board the scan reports a winner exactly when some row,
\* column or diagonal holds five or more contiguous stones of one colour,
\* and the colour it reports has such a run; with no such run, both
\* counters off the threshold and the board not full, the answer is unknown.
C2_ScanIffFive ==
  last.cmd = FinalResult =>
    /\ HasFive(board) => out[1].text \in {"black", "white"}
    /\ (B # THRESHOLD /\ W # THRESHOLD) =>
         /\ out[1].text \in {"black", "white"} <=> HasFive(board)
         /\ out[1].text = "black" => HasRun(board, BLACK, FIVE)
         /\ out[1].text = "white" => HasRun(board, WHITE, FIVE)
    /\ (~HasFive(board) /\ BelowThreshold /\ ~Full(board)) => out = << respond("unknown") >>

\* C2 happens: the longest run is four, the board is not full, the counters
\* are zero, and the answer is unknown.
C2_Witness ==
  /\ last.cmd = FinalResult
  /\ HasRun(board, BLACK, FIVE - 1)
  /\ ~HasFive(board)
  /\ ~Full(board)
  /\ B = 0 /\ W = 0
  /\ out = << respond("unknown") >>

\* C3: no cell is EMPTY, there is no five in a row and both counters are
\* below the threshold: gogui-rules_final_result answers Draw.
C3_FullBoardDraw ==
  (last.cmd = FinalResult /\ BelowThreshold /\ Full(board) /\ ~HasFive(board))
    => out = << respond("Draw") >>

\* C4: no five in a row, and one colour's counter has reached 10 by the
\* captures its accepted moves made: gogui-rules_final_result names that
\* colour, the capturing one.
C4_CapturerNamed ==
  (last.cmd = FinalResult /\ (B = THRESHOLD \/ W = THRESHOLD) /\ ~HasFive(board)) =>
    /\ (B = THRESHOLD /\ W < THRESHOLD) => out = << respond("black") >>
    /\ (W = THRESHOLD /\ B < THRESHOLD) => out = << respond("white") >>

\* C5: whenever a counter is at least 10, gogui-rules_legal_moves answers
\* with the empty list and gogui-rules_final_result does not answer unknown.
C5_ThresholdEndsGame ==
  (B >= THRESHOLD \/ W >= THRESHOLD) =>
    /\ last.cmd = LegalMoves => out = << respond("") >>
    /\ last.cmd = FinalResult => out # << respond("unknown") >>

\* C6: an accepted play for which the capture rule reports k stones of
\* colour X adds exactly k to the counter of X's opponent and leaves X's
\* counter as it was.
C6_step ==
  (last'.cmd = "play" /\ last'.status = "ok") =>
    /\ last'.x = BLACK => (W' = W + last'.k /\ B' = B)
    /\ last'.x = WHITE => (B' = B + last'.k /\ W' = W)
    /\ last'.x \in {BLACK, WHITE}
C6_CaptureCredited == [][C6_step]_vars

\* C6 happens: a play by Black was accepted and captured two white stones,
\* and Black's counter is 2.
C6_Witness ==
  /\ last.cmd = "play" /\ last.status = "ok"
  /\ last.k = 2 /\ last.x = WHITE
  /\ B = 2 /\ W = 0

\* C7: after clear_board, whatever stones, counters and player to move it
\* found, both counters are 0, every cell is EMPTY and the side is the same.
C7_ClearBoardResets ==
  last.cmd = "clear_board" =>
    /\ B = 0 /\ W = 0
    /\ board = EmptyBoard(size)
    /\ size = snap.size

\* C7 happens: clear_board found stones, a counter above 0 and White to
\* move, and left an empty board with both counters 0.
C7_Witness ==
  /\ last.cmd = "clear_board"
  /\ snap.stones /\ snap.B + snap.W > 0 /\ snap.player = WHITE
  /\ B = 0 /\ W = 0 /\ board = EmptyBoard(size)

\* C8: after boardsize, whatever it found, both counters are 0 and the
\* board is empty.
C8_BoardsizeResets ==
  last.cmd = "boardsize" => (B = 0 /\ W = 0 /\ board = EmptyBoard(size))

\* C9: each counter is a non-negative integer, and from one command to the
\* next it does not decrease, except that clear_board sets it to 0.
C9_step ==
  running' =>
    /\ B' < B => (last'.cmd = "clear_board" /\ B' = 0)
    /\ W' < W => (last'.cmd = "clear_board" /\ W' = 0)
C9_CountersMonotone == [](B \in Nat /\ W \in Nat) /\ [][C9_step]_vars

\* C9 happens: a genmove captured two black stones and White's counter went
\* from 0 to 2.
C9_Witness ==
  /\ last.cmd = "genmove" /\ last.status = "ok"
  /\ last.k = 2 /\ last.x = BLACK
  /\ W = 2 /\ B = 0

\* C10 as stated: play b PASS and then play w PASS leave the board and the
\* counters as they were, and the player to move is the one that was to
\* move before the two commands.
C10_step_stated ==
  (last'.cmd = "play" /\ last'.status = "pass") =>
    /\ board' = board /\ B' = B /\ W' = W
    /\ (last.status = "pass" /\ last.x = BLACK /\ last'.x = WHITE)
         => current_player' = snap.player
C10_PassesRestorePlayer == [][C10_step_stated]_vars

\* C10, amended: play b PASS and then play w PASS leave the board and the
\* counters as they were, and the player to move after them is Black, which
\* is the player that was to move before them only if that was Black.
C10_step ==
  (last'.cmd = "play" /\ last'.status = "pass") =>
    /\ board' = board /\ B' = B /\ W' = W
    /\ (last.status = "pass" /\ last.x = BLACK /\ last'.x = WHITE)
         => /\ current_player' = BLACK
            /\ current_player' = snap.player <=> snap.player = BLACK
C10_PassesLeaveBlackToMove == [][C10_step]_vars

\* C10 happens: play w PASS right after play b PASS, on a board with stones
\* and a counter above 0, and Black is to move.
C10_Witness ==
  /\ last.cmd = "play" /\ last.status = "pass" /\ last.x = WHITE
  /\ snap.passed = BLACK
  /\ board # EmptyBoard(size)
  /\ B + W > 0
  /\ current_player = BLACK
\* C11: for every board size in 2..MAXSIZE and every row and col in 1..size,
\* move_to_coord(format_point((row, col)), size) returns (row, col) and neither
\* call raises; format_point((PASS, PASS)) is "PASS" and move_to_coord of it
\* is (PASS, PASS).
C11_RoundTrip ==
  /\ call.fn = "format_point" =>
       /\ call.err = ""
       /\ call.move = << PASS, PASS >> => call.text = << "P","A","S","S" >>
  /\ call.fn = "move_to_coord" =>
       /\ call.err = ""
       /\ call.coord = call.move

\* C12: a play whose move text move_to_coord rejects for the current board
\* size (after boardsize 5, play b Z9) is answered with one response of the
\* failure form, "? ...", that names the category wrong coordinate.
C12_WrongCoordinateFails ==
  (last.cmd = "play" /\ last.status = "wrong coordinate") =>
    /\ Len(out) = 1
    /\ out[1].kind = "?"
    /\ out[1].text = "Illegal Move: \"{}\" wrong coordinate"

\* C13: a play rejected as wrong color, wrong coordinate or occupied leaves
\* the board's cells, the player to move and both capture counters as they
\* were before the command.
Rejections == { "wrong color", "wrong coordinate", "occupied" }
C13_step ==
  (last'.cmd = "play" /\ last'.status \in Rejections) =>
    UNCHANGED << size, board, current_player, B, W >>
C13_RejectedPlayChangesNothing == [][C13_step]_vars
\* A move on an occupied point rejected when there are stones, White is to
\* move and a counter is positive.
C13_Witness ==
  /\ last.cmd = "play" /\ last.status = "occupied"
  /\ board # EmptyBoard(size)
  /\ current_player = WHITE
  /\ B + W > 0

\* C14: a command line for a command with a declared argument count whose
\* number of arguments differs from it gets exactly one failure response, the
\* command's usage text, its handler does not run, and the board, the player
\* to move and the counters stay as they were; a command without a declared
\* count reaches its handler with any number of arguments.
C14_step ==
  /\ (last'.cmd \in DOMAIN argmap /\ argc' # argmap[last'.cmd][1]) =>
       /\ last'.status = "usage"
       /\ out' = << error(argmap[last'.cmd][2]) >>
       /\ UNCHANGED << size, board, current_player, B, W, running >>
  /\ (last'.cmd \in DOMAIN argmap /\ argc' = argmap[last'.cmd][1]) =>
       last'.status # "usage"
  /\ last'.cmd \notin DOMAIN argmap =>
       /\ last'.status = "ok"
       /\ last'.cmd = "clear_board" => board' = EmptyBoard(size) /\ B' = 0 /\ W' = 0
C14_ArgumentCountChecked == [][C14_step]_vars
\* play with one argument refused when there are stones, White is to move
\* and a counter is positive.
C14_Witness ==
  /\ last.cmd = "play" /\ last.status = "usage" /\ argc = 1
  /\ out = << error("Usage: play {b,w} MOVE") >>
  /\ board # EmptyBoard(size)
  /\ current_player = WHITE
  /\ B + W > 0

\* C15: genmove b / genmove w with an empty legal-move list completes: it
\* writes one response, an "Illegal move" text, changes neither the board nor
\* the counters, and the session goes on reading commands.
C15_step ==
  (/\ last'.cmd = "genmove"
   /\ last'.status \notin { "usage", "KeyError" }
   /\ legal_move = {}) =>
    /\ running'
    /\ Len(out') = 1
    /\ out'[1].text = "Illegal move: {}"
    /\ UNCHANGED << board, B, W >>
C15_EmptyListAnswered == [][C15_step]_vars

\* C16: on every board that holds five in a row of either colour, a board
\* with no legal move left included, genmove b / genmove w responds resign,
\* places no stone and changes neither a capture counter nor the player to
\* move.
C16_step ==
  (/\ last'.cmd = "genmove"
   /\ last'.status \notin { "usage", "KeyError" }
   /\ HasFive(board)) =>
    /\ out' = << respond("resign") >>
    /\ UNCHANGED << board, B, W, current_player >>
C16_FiveMeansResign == [][C16_step]_vars

\* C17: in the gogui-rules_captured_count response the first number is
\* White's score, the counter W that grows when the capture rule reports
\* BLACK stones captured, and the second is Black's score, the counter B.
C17_WhiteScoreFirst ==
  (last.cmd = "gogui-rules_captured_count" /\ last.status = "ok") =>
    out = << respond_nums(<< W, B >>) >>

\* C18: play with the move text pass, in any letter case, is accepted in
\* every session state and for every colour argument color_to_int accepts:
\* it responds with success, places no stone, changes no counter and makes
\* the opponent of the given colour the player to move.
C18_step ==
  (last'.cmd = "play" /\ last'.status \in { "pass", "UnboundLocalError at pass" }) =>
    /\ running'
    /\ out' = << respond("") >>
    /\ UNCHANGED << size, board, B, W >>
    /\ last'.x \in { BLACK, WHITE }
    /\ current_player' = opponent(last'.x)
C18_PassAlwaysAccepted == [][C18_step]_vars

\* C19: a play whose colour argument is anything other than b or w, letter
\* case aside, e and BORDER included, is answered with the wrong color text;
\* the command completes, the session goes on, and the board, the player to
\* move and the counters are unchanged.
C19_step ==
  (/\ last'.cmd = "play"
   /\ last'.status # "usage"
   /\ lower(arg0') \notin { << "b" >>, << "w" >> }) =>
    /\ running'
    /\ Len(out') = 1
    /\ out'[1].text = "Illegal Move: \"{}\" wrong color"
    /\ UNCHANGED << size, board, current_player, B, W >>
C19_OtherColourRejected == [][C19_step]_vars

\* C20: a genmove that neither resigns nor finds the legal list empty places
\* exactly one stone, of the colour its argument names, on a point of the
\* legal-move list of the board's current player, responds with the label of
\* that point, and updates the capture counters by what the capture rule
\* returned, as play does.
C20_step ==
  (last'.cmd = "genmove" /\ last'.status = "ok") =>
    LET color == color_to_int(lower(arg0')).val
        points == (DOMAIN board) \X (DOMAIN board)
        placed == { p \in points : board[p[1]][p[2]] = EMPTY /\ board'[p[1]][p[2]] # EMPTY }
        taken == { p \in points : board[p[1]][p[2]] # EMPTY /\ board'[p[1]][p[2]] = EMPTY }
    IN  /\ color \in { BLACK, WHITE }
        /\ Cardinality(placed) = 1
        /\ \A p \in placed :
             LET label == format_point(<< p[1] + 1, p[2] + 1 >>).val
             IN  /\ board'[p[1]][p[2]] = color
                 /\ label \in legal_move
                 /\ out' = << respond_moves(<< label >>) >>
        /\ \A p \in points \ (placed \cup taken) : board'[p[1]][p[2]] = board[p[1]][p[2]]
        /\ \A p \in taken : board[p[1]][p[2]] = opponent(color)
        /\ last'.k = Cardinality(taken)
        /\ last'.x = opponent(color)
        /\ Credit(<< last'.k, last'.x >>)
        /\ running'
C20_GenmovePlacesArgumentColour == [][C20_step]_vars
\* genmove w answered with a point while Black was to move, the stone having
\* captured a pair.
C20_Witness ==
  /\ last.cmd = "genmove" /\ last.status = "ok"
  /\ arg0 = << "w" >>
  /\ last.k = 2 /\ last.x = BLACK
  /\ W = 2

C22_step ==
  (/\ last'.cmd \in { "play", "genmove" }
   /\ running'
   /\ final_result(board, B, W).text \in { "black", "white" }) =>
    final_result(board', B', W') = final_result(board, B, W)
C22_FinishedIsStable == [][C22_step]_vars

\* C23: in every session state gogui-rules_legal_moves answers the empty
\* list exactly when gogui-rules_final_result answers something other than
\* unknown.
C23_QueriesConsistent ==
  /\ last.cmd = LegalMoves =>
       (out[1].moves = << >> <=> final_result(board, B, W).text # "unknown")
  /\ last.cmd = FinalResult =>
       (out[1].text # "unknown" <=> legal_moves_response.moves = << >>)
\* C24: a line that is blank, starts with # or holds only a number gets no
\* response and changes no state; every other line whose handler does not
\* raise gets exactly one response: "Unknown command" for an unknown name,
\* the usage text for a wrong argument count, one response on every path of
\* play, genmove, gogui-rules_legal_moves and gogui-rules_final_result.
Blank(text) == \A i \in 1..Len(text) : IsSpace(text[i])
Comment(text) == Len(text) > 0 /\ text[1] = "#"
NumberOnly(text) ==
  /\ \E i \in 1..Len(text) : isdigit(text[i])
  /\ \A i \in 1..Len(text) : isdigit(text[i]) \/ IsSpace(text[i])
  /\ \A i, j \in 1..Len(text) :
       (i < j /\ isdigit(text[i]) /\ isdigit(text[j])) =>
         \A k \in i..j : isdigit(text[k])
NoCommand(text) == Blank(text) \/ Comment(text) \/ NumberOnly(text)
C24_step ==
  /\ (line' # << >> /\ NoCommand(line')) =>
       /\ out' = << >>
       /\ UNCHANGED << size, board, current_player, B, W, running >>
  /\ (running' /\ ~(line' # << >> /\ NoCommand(line'))) => Len(out') = 1
  /\ last'.status = "unknown" => out' = << error("Unknown command") >>
  /\ last'.status = "usage" => out' = << error(argmap[last'.cmd][2]) >>
C24_OneResponsePerLine == [][C24_step]_vars

\* C25: only play, genmove, clear_board and boardsize change the game: every
\* other command that completes leaves the board, its size, the player to
\* move and both counters as they were, and a query repeated with the same
\* arguments right after itself gets the same response.
Changing == { "play", "genmove", "clear_board", "boardsize" }
C25_step ==
  /\ (running' /\ last'.cmd \notin Changing) =>
       UNCHANGED << size, board, current_player, B, W >>
  /\ (running' /\ last'.cmd \notin Changing /\ last'.cmd = last.cmd /\ arg0' = arg0) =>
       out' = out
C25_QueriesChangeNothing == [][C25_step]_vars

\* legal_moves w answered with a list of points on a board with stones,
\* White to move, a positive counter and the komi set.
C25_Witness ==
  /\ running
  /\ last.cmd = "legal_moves" /\ last.status = "ok" /\ arg0 = << "w" >>
  /\ out[1].moves # << >>
  /\ board # EmptyBoard(size)
  /\ current_player = WHITE
  /\ B + W > 0
  /\ komi = << 65, 10 >>

====
